---- MODULE Spec2Model ----
(***************************************************************************)
(* Model of load_journal_data_to_bq.py: a one-shot batch job that reads a  *)
(* semicolon-delimited SCImago CSV file, extracts (title, sjr) records,    *)
(* drops and recreates a BigQuery table and bulk-loads the records into it *)
(* with WRITE_TRUNCATE.                                                    *)
(*                                                                         *)
(* A field of the file is a sequence of one-character strings.  The        *)
(* characters of the model are drawn from                                  *)
(*     " "  ","  "."  "-"  "0".."9"  "N"  "/"  "A"                         *)
(* and ParseFloat below is Python's float() restricted to that alphabet    *)
(* (no exponent, underscore or "inf" can be spelled with it; "NAN" can).   *)
(***************************************************************************)
EXTENDS Integers, Sequences, FiniteSets, TLC

VARIABLES
    file,        \* the input CSV: [exists, header, rows]
    table,       \* the destination BigQuery table: [exists, schema, rows]
    pc,          \* position of main()
    run,         \* number of the current invocation of the script
    journals,    \* the list built by process_scimagojr_csv
    job,         \* state of the load job: "none", "running", "done", "failed"
    ops,         \* remote calls made by the current run, in order
    reported,    \* <<n>> once "Loaded n rows" was printed, else <<>>
    summary,     \* TRUE once the closing "Done!" message was printed
    exitStatus,  \* exit status of the process, meaningful when pc = "exited"
    abortAt,     \* where the run aborted: "none" or the failing step
    tableAtStart,\* the destination as the current run found it
    prev         \* how the previous run ended (<<>> in the first run)

vars == <<file, table, pc, run, journals, job, ops, reported, summary,
          exitStatus, abortAt, tableAtStart, prev>>

(***************************************************************************)
(* Bounds of the model.                                                    *)
(***************************************************************************)
MaxRows == 2
MaxRuns == 2

(***************************************************************************)
(* Floats.  A value is sign, decimal mantissa and number of fractional      *)
(* digits, normalised so that equal numbers have equal representations.    *)
(***************************************************************************)
Digits == {"0", "1", "2", "3", "4", "5", "6", "7", "8", "9"}

DigitVal(c) ==
    CASE c = "0" -> 0 [] c = "1" -> 1 [] c = "2" -> 2 [] c = "3" -> 3
      [] c = "4" -> 4 [] c = "5" -> 5 [] c = "6" -> 6 [] c = "7" -> 7
      [] c = "8" -> 8 [] c = "9" -> 9

RECURSIVE DigitsVal(_)
DigitsVal(s) ==
    IF s = <<>> THEN 0
    ELSE 10 * DigitsVal(SubSeq(s, 1, Len(s) - 1)) + DigitVal(s[Len(s)])

RECURSIVE Normalise(_, _, _)
Normalise(neg, m, e) ==
    IF m = 0 THEN [nan |-> FALSE, neg |-> FALSE, m |-> 0, e |-> 0]
    ELSE IF e > 0 /\ m % 10 = 0 THEN Normalise(neg, m \div 10, e - 1)
    ELSE [nan |-> FALSE, neg |-> neg, m |-> m, e |-> e]

Zero == Normalise(FALSE, 0, 0)
NaN == [nan |-> TRUE, neg |-> FALSE, m |-> 0, e |-> 0]

(***************************************************************************)
(* str.strip() and str.replace(',', '.')                                   *)
(***************************************************************************)
RECURSIVE LStrip(_)
LStrip(s) == IF s # <<>> /\ Head(s) = " " THEN LStrip(Tail(s)) ELSE s

RECURSIVE RStrip(_)
RStrip(s) ==
    IF s # <<>> /\ s[Len(s)] = " " THEN RStrip(SubSeq(s, 1, Len(s) - 1)) ELSE s

Strip(s) == RStrip(LStrip(s))

ReplaceComma(s) == [i \in 1..Len(s) |-> IF s[i] = "," THEN "." ELSE s[i]]

(***************************************************************************)
(* float(s): [ok |-> FALSE] stands for ValueError.                         *)
(***************************************************************************)
Unsigned(s) == IF s # <<>> /\ s[1] = "-" THEN Tail(s) ELSE s

DotPositions(s) == {i \in 1..Len(s) : s[i] = "."}

Without(s, k) == [i \in 1..(Len(s) - 1) |-> IF i < k THEN s[i] ELSE s[i + 1]]

ParseFloat(s0) ==
    LET s    == Strip(s0)
        neg  == s # <<>> /\ s[1] = "-"
        u    == Unsigned(s)
        dots == DotPositions(u)
    IN  IF u = <<"N", "A", "N">> THEN [ok |-> TRUE, val |-> NaN]
        ELSE IF Cardinality(dots) > 1 THEN [ok |-> FALSE, val |-> Zero]
        ELSE LET k  == IF dots = {} THEN Len(u) + 1 ELSE CHOOSE i \in dots : TRUE
                 ds == IF dots = {} THEN u ELSE Without(u, k)
             IN  IF ds = <<>> \/ \E i \in 1..Len(ds) : ds[i] \notin Digits
                 THEN [ok |-> FALSE, val |-> Zero]
                 ELSE [ok |-> TRUE,
                       val |-> Normalise(neg, DigitsVal(ds), Len(ds) - (k - 1))]

ParseSJR(sjr_str) ==
    LET r == ParseFloat(ReplaceComma(sjr_str))
    IN  IF r.ok THEN r.val ELSE Zero

(***************************************************************************)
(* csv.DictReader(file, delimiter=';').  The header is the first line; a   *)
(* data line is a sequence of fields.  Lines with no field at all are      *)
(* skipped; a name of the header beyond the end of a short line maps to    *)
(* None (here <<>>, a present field f being <<f>>); of two equal header    *)
(* names the later one wins.                                               *)
(***************************************************************************)
HasKey(header, name) == \E i \in 1..Len(header) : header[i] = name

KeyIndex(header, name) ==
    CHOOSE i \in 1..Len(header) :
        /\ header[i] = name
        /\ \A j \in 1..Len(header) : header[j] = name => j <= i

RowGet(header, line, name) ==
    LET i == KeyIndex(header, name)
    IN  IF i <= Len(line) THEN <<line[i]>> ELSE <<>>

DataRows(rows) == SelectSeq(rows, LAMBDA line : line # <<>>)

(***************************************************************************)
(* One iteration of the loop of process_scimagojr_csv: row['Title']        *)
(* raises KeyError when the header has no such column and .strip() raises  *)
(* AttributeError on None; the same for row['SJR'].                        *)
(***************************************************************************)
RowRaises(header, line) ==
    \/ ~HasKey(header, "Title")
    \/ RowGet(header, line, "Title") = <<>>
    \/ ~HasKey(header, "SJR")
    \/ RowGet(header, line, "SJR") = <<>>

RowRecord(header, line) ==
    [title |-> Strip(RowGet(header, line, "Title")[1]),
     sjr   |-> ParseSJR(Strip(RowGet(header, line, "SJR")[1]))]

RECURSIVE ProcessRows(_, _, _)
ProcessRows(header, rows, acc) ==
    IF rows = <<>> THEN [ok |-> TRUE, journals |-> acc]
    ELSE IF RowRaises(header, Head(rows)) THEN [ok |-> FALSE, journals |-> acc]
    ELSE ProcessRows(header, Tail(rows), Append(acc, RowRecord(header, Head(rows))))

\* open() raises FileNotFoundError when the path does not exist.
process_scimagojr_csv(f) ==
    IF ~f.exists THEN [ok |-> FALSE, journals |-> <<>>]
    ELSE ProcessRows(f.header, DataRows(f.rows), <<>>)

(***************************************************************************)
(* The destination table and the three remote calls.                       *)
(***************************************************************************)
FixedSchema ==
    << [name |-> "title", type |-> "STRING",  mode |-> "REQUIRED"],
       [name |-> "sjr",   type |-> "FLOAT64", mode |-> "REQUIRED"] >>

OtherSchema == << [name |-> "id", type |-> "INT64", mode |-> "NULLABLE"] >>

NoTable == [exists |-> FALSE, schema |-> <<>>, rows |-> <<>>]

NewTable(schema) == [exists |-> TRUE, schema |-> schema, rows |-> <<>>]

\* client.delete_table(table_ref): the outcomes the service can give.
DeleteOutcomes(t) == (IF t.exists THEN {"deleted"} ELSE {"notfound"}) \cup {"error"}

RemoteDelete(t, outcome) == IF outcome = "deleted" THEN NoTable ELSE t

\* client.create_table(table), exists_ok left at its default False: an
\* existing table makes the call raise Conflict.
CreateOutcomes(t) == (IF t.exists THEN {"conflict"} ELSE {"created"}) \cup {"error"}

RemoteCreate(t, outcome) == IF outcome = "created" THEN NewTable(FixedSchema) ELSE t

\* The load job's configuration.
WriteDisposition == "WRITE_TRUNCATE"

\* What a load job that succeeds leaves at the destination.
RemoteLoad(t, rows, disposition) ==
    IF disposition = "WRITE_TRUNCATE" \/ ~t.exists
    THEN [exists |-> TRUE, schema |-> FixedSchema, rows |-> rows]
    ELSE [t EXCEPT !.rows = t.rows \o rows]

\* The job ends having stored every record, having stored fewer (a silent
\* drop by the service), or failed.
JobOutcomes(rows) == {"stored", "failed"} \cup (IF rows = <<>> THEN {} ELSE {"dropped"})

StoredRows(rows, outcome) ==
    IF outcome = "dropped" THEN SubSeq(rows, 1, Len(rows) - 1) ELSE rows

(***************************************************************************)
(* Bookkeeping of a run.                                                   *)
(***************************************************************************)
Call(op, res) == [op |-> op, res |-> res]

Failure(c) == c.res \in {"error", "conflict", "failed", "dropped"}

RemoteFailed == \E i \in 1..Len(ops) : Failure(ops[i])

Count(op) == Cardinality({i \in 1..Len(ops) : ops[i].op = op})

Abort(step) ==
    /\ pc' = "exited"
    /\ exitStatus' = 1
    /\ abortAt' = step

(***************************************************************************)
(* Inputs: the files and the prior states of the destination.              *)
(***************************************************************************)
Headers ==
    { <<"Title", "SJR">>, <<"SJR", "Title">>, <<"Rank", "SJR", "Title">>,
      <<"Title">> }

SampleLines ==
    { <<>>,
      << <<"A">> >>,
      << <<" ", "A", " ">>, <<"1", ",", "5">> >>,
      << <<"N">>, <<"N", "/", "A">> >>,
      << <<"A">>, <<" ", "2", "0">>, <<"9">> >>,
      << <<"A", " ", "N">>, <<"-", "2", ",", "5", "0">> >> }

SeqsUpTo(S, n) == UNION { [1..k -> S] : k \in 0..n }

MissingFile == [exists |-> FALSE, header |-> <<>>, rows |-> <<>>]

ShortRowFile ==
    [exists |-> TRUE, header |-> <<"Title", "SJR">>, rows |-> << << <<"A">> >> >>]

OneRowFile ==
    [exists |-> TRUE, header |-> <<"Title", "SJR">>,
     rows |-> << << <<"N">>, <<"0", ",", "5">> >> >>]

Files ==
    { [exists |-> TRUE, header |-> h, rows |-> r] :
          h \in Headers, r \in SeqsUpTo(SampleLines, MaxRows) }
    \cup { MissingFile }

NextFiles(f) == {f, MissingFile, ShortRowFile, OneRowFile}

UnrelatedRow == [title |-> <<"N">>, sjr |-> Normalise(FALSE, 9, 0)]

PriorTables ==
    { NoTable,
      NewTable(FixedSchema),
      [exists |-> TRUE, schema |-> FixedSchema, rows |-> <<UnrelatedRow>>],
      [exists |-> TRUE, schema |-> OtherSchema, rows |-> <<[id |-> 7]>>] }

(***************************************************************************)
(* main()                                                                  *)
(***************************************************************************)
\* Mutant: the missing file is reported but the process ends with status 0.
CheckFile_exit0 ==
    /\ pc = "check"
    /\ IF file.exists
       THEN pc' = "extract" /\ UNCHANGED <<exitStatus, abortAt>>
       ELSE pc' = "exited" /\ exitStatus' = 0 /\ abortAt' = "nofile"
    /\ UNCHANGED <<file, table, run, journals, job, ops, reported, summary,
                   tableAtStart, prev>>

\* if not os.path.exists(args.csv_file): ... sys.exit(1)
CheckFile ==
    /\ pc = "check"
    /\ IF file.exists
       THEN pc' = "extract" /\ UNCHANGED <<exitStatus, abortAt>>
       ELSE Abort("nofile")
    /\ UNCHANGED <<file, table, run, journals, job, ops, reported, summary,
                   tableAtStart, prev>>

\* Mutant: an exception of the extraction is swallowed and the run goes on
\* with the records read so far.
Extract_swallow ==
    /\ pc = "extract"
    /\ journals' = process_scimagojr_csv(file).journals
    /\ pc' = "delete"
    /\ UNCHANGED <<file, table, run, job, ops, reported, summary, exitStatus,
                   abortAt, tableAtStart, prev>>

\* journals = process_scimagojr_csv(args.csv_file), then the sample print
Extract ==
    /\ pc = "extract"
    /\ LET r == process_scimagojr_csv(file)
       IN  IF r.ok
           THEN journals' = r.journals /\ pc' = "delete"
                /\ UNCHANGED <<exitStatus, abortAt>>
           ELSE Abort("extract") /\ UNCHANGED journals
    /\ UNCHANGED <<file, table, run, job, ops, reported, summary,
                   tableAtStart, prev>>

\* Mutant: only "not found" is swallowed; any other delete error propagates.
DeleteTable_raises ==
    /\ pc = "delete"
    /\ \E outcome \in DeleteOutcomes(table) :
          /\ table' = RemoteDelete(table, outcome)
          /\ ops' = Append(ops, Call("delete", outcome))
          /\ IF outcome = "error"
             THEN Abort("delete")
             ELSE pc' = "create" /\ UNCHANGED <<exitStatus, abortAt>>
    /\ UNCHANGED <<file, run, journals, job, reported, summary,
                   tableAtStart, prev>>

\* Mutant: the table is created and loaded only when there was none to
\* delete; after a successful delete the run goes straight to its end.
DeleteTable_shortcut ==
    /\ pc = "delete"
    /\ \E outcome \in DeleteOutcomes(table) :
          /\ table' = RemoteDelete(table, outcome)
          /\ ops' = Append(ops, Call("delete", outcome))
          /\ pc' = IF outcome = "deleted" THEN "summary" ELSE "create"
    /\ UNCHANGED <<file, run, journals, job, reported, summary, exitStatus,
                   abortAt, tableAtStart, prev>>

\* try: client.delete_table(table_ref) except Exception: pass
DeleteTable ==
    /\ pc = "delete"
    /\ \E outcome \in DeleteOutcomes(table) :
          /\ table' = RemoteDelete(table, outcome)
          /\ ops' = Append(ops, Call("delete", outcome))
    /\ pc' = "create"
    /\ UNCHANGED <<file, run, journals, job, reported, summary, exitStatus,
                   abortAt, tableAtStart, prev>>

\* Mutant: create_table(table, exists_ok=True), an existing table is kept
\* as it is and no Conflict is raised.
CreateTable_existsOk ==
    /\ pc = "create"
    /\ \E outcome \in (IF table.exists THEN {"exists"} ELSE {"created"}) \cup {"error"} :
          /\ table' = RemoteCreate(table, outcome)
          /\ ops' = Append(ops, Call("create", outcome))
          /\ IF outcome \in {"created", "exists"}
             THEN pc' = "load" /\ UNCHANGED <<exitStatus, abortAt>>
             ELSE Abort("create")
    /\ UNCHANGED <<file, run, journals, job, reported, summary,
                   tableAtStart, prev>>

\* table = client.create_table(table)
CreateTable ==
    /\ pc = "create"
    /\ \E outcome \in CreateOutcomes(table) :
          /\ table' = RemoteCreate(table, outcome)
          /\ ops' = Append(ops, Call("create", outcome))
          /\ IF outcome = "created"
             THEN pc' = "load" /\ UNCHANGED <<exitStatus, abortAt>>
             ELSE Abort("create")
    /\ UNCHANGED <<file, run, journals, job, reported, summary,
                   tableAtStart, prev>>

\* job = client.load_table_from_json(journals_data, table_ref, job_config)
LoadStart ==
    /\ pc = "load"
    /\ \E outcome \in {"submitted", "error"} :
          /\ ops' = Append(ops, Call("load", outcome))
          /\ IF outcome = "submitted"
             THEN job' = "running" /\ pc' = "wait"
                  /\ UNCHANGED <<exitStatus, abortAt>>
             ELSE Abort("load") /\ UNCHANGED job
    /\ UNCHANGED <<file, table, run, journals, reported, summary,
                   tableAtStart, prev>>

\* The service runs the job to a terminal state while job.result() blocks.
JobComplete ==
    /\ pc = "wait"
    /\ job = "running"
    /\ \E outcome \in JobOutcomes(journals) :
          /\ ops' = Append(ops, Call("job", outcome))
          /\ IF outcome = "failed"
             THEN job' = "failed" /\ UNCHANGED table
             ELSE /\ job' = "done"
                  /\ table' = RemoteLoad(table, StoredRows(journals, outcome),
                                         WriteDisposition)
    /\ UNCHANGED <<file, pc, run, journals, reported, summary, exitStatus,
                   abortAt, tableAtStart, prev>>

\* Mutant: the job's outcome is not looked at (no job.result() error check).
JobResult_unchecked ==
    /\ pc = "wait"
    /\ job \in {"done", "failed"}
    /\ pc' = "get"
    /\ UNCHANGED <<file, table, run, journals, job, ops, reported, summary,
                   exitStatus, abortAt, tableAtStart, prev>>

\* job.result() returns, or raises when the job failed
JobResult ==
    /\ pc = "wait"
    /\ job \in {"done", "failed"}
    /\ IF job = "done"
       THEN pc' = "get" /\ UNCHANGED <<exitStatus, abortAt>>
       ELSE Abort("load")
    /\ UNCHANGED <<file, table, run, journals, job, ops, reported, summary,
                   tableAtStart, prev>>

\* Mutant: the number of records sent is printed instead of table.num_rows.
ReportedCount_sent(t, sent) == Len(sent)

\* table.num_rows of the metadata just fetched
ReportedCount(t, sent) == Len(t.rows)

\* table = client.get_table(table_ref); print(f"Loaded {table.num_rows} rows ...")
GetTable ==
    /\ pc = "get"
    /\ \E outcome \in {"fetched", "error"} :
          /\ ops' = Append(ops, Call("get", outcome))
          /\ IF outcome = "fetched"
             THEN /\ reported' = <<ReportedCount(table, journals)>>
                  /\ pc' = "summary"
                  /\ UNCHANGED <<exitStatus, abortAt>>
             ELSE Abort("get") /\ UNCHANGED reported
    /\ UNCHANGED <<file, table, run, journals, job, summary,
                   tableAtStart, prev>>

\* print("\nDone! ...") and the normal end of the process
Summary ==
    /\ pc = "summary"
    /\ summary' = TRUE
    /\ pc' = "exited"
    /\ exitStatus' = 0
    /\ UNCHANGED <<file, table, run, journals, job, ops, reported, abortAt,
                   tableAtStart, prev>>

\* The script is invoked again on the same destination; --csv-file names the
\* same file, unchanged, or another one.
StartRun ==
    /\ pc = "exited"
    /\ run < MaxRuns
    /\ run' = run + 1
    /\ file' \in NextFiles(file)
    /\ prev' = << [exitStatus |-> exitStatus, abortAt |-> abortAt,
                   failed |-> RemoteFailed, count |-> Len(table.rows),
                   sameFile |-> (file' = file)] >>
    /\ pc' = "check"
    /\ journals' = <<>>
    /\ job' = "none"
    /\ ops' = <<>>
    /\ reported' = <<>>
    /\ summary' = FALSE
    /\ exitStatus' = 0
    /\ abortAt' = "none"
    /\ tableAtStart' = table
    /\ UNCHANGED table

Init ==
    /\ file \in Files
    /\ table \in PriorTables
    /\ pc = "check"
    /\ run = 1
    /\ journals = <<>>
    /\ job = "none"
    /\ ops = <<>>
    /\ reported = <<>>
    /\ summary = FALSE
    /\ exitStatus = 0
    /\ abortAt = "none"
    /\ tableAtStart = table
    /\ prev = <<>>

Next ==
    \/ CheckFile
    \/ Extract
    \/ DeleteTable
    \/ CreateTable
    \/ LoadStart
    \/ JobComplete
    \/ JobResult
    \/ GetTable
    \/ Summary
    \/ StartRun

Spec == Init /\ [][Next]_vars

(***************************************************************************)
(* Properties.                                                             *)
(***************************************************************************)
Extracted(f) == process_scimagojr_csv(f)

HasColumns(f) == HasKey(f.header, "Title") /\ HasKey(f.header, "SJR")

Refreshed(f) ==
    table = [exists |-> TRUE, schema |-> FixedSchema, rows |-> Extracted(f).journals]

Fatal(c) ==
    \/ c.op = "create" /\ c.res # "created"
    \/ c.op = "load" /\ c.res = "error"
    \/ c.op = "job" /\ c.res = "failed"

\* C1: full refresh leaves no residue: a run on an existing input file (with
\* the Title and SJR header columns) in which no remote operation fails ends
\* with the destination holding the fixed schema and exactly the records of
\* the file, whatever the destination was before.
C1_NoResidue ==
    (pc = "exited" /\ file.exists /\ HasColumns(file) /\ ~RemoteFailed)
        => Refreshed(file)

\* C2: when the input path does not exist the run ends with a non-zero exit
\* status, makes no remote call and leaves the destination as it found it.
C2_MissingFileNoEffect ==
    (~file.exists /\ pc # "check")
        => /\ pc = "exited"
           /\ exitStatus # 0
           /\ ops = <<>>
           /\ table = tableAtStart

C2_Witness ==
    /\ ~file.exists
    /\ pc = "exited"
    /\ tableAtStart.exists
    /\ tableAtStart.rows # <<>>

\* C3: whatever the outcome of the delete attempt, the run is not aborted by
\* it and the next thing it does is attempt the table creation.
C3_DeleteNeverAborts ==
    ops # <<>>
        => /\ ops[1].op = "delete"
           /\ abortAt # "delete"
           /\ Len(ops) = 1 => (pc = "create" /\ abortAt = "none")
           /\ Len(ops) >= 2 => ops[2].op = "create"

C3_Witness ==
    /\ Len(ops) >= 2
    /\ ops[1] = Call("delete", "error")
    /\ tableAtStart.exists
    /\ ops[2].op = "create"

\* C4: whenever the bulk load is about to start, the destination exists, has
\* the fixed schema and holds no row; a run whose delete failed while a
\* table was present never starts a load.
C4_EmptyFixedTableAtLoad ==
    /\ pc = "load" => table = NewTable(FixedSchema)
    /\ (pc = "load" \/ Count("load") > 0)
           => ~(ops[1] = Call("delete", "error") /\ tableAtStart.exists)

C4_Witness ==
    /\ pc = "load"
    /\ tableAtStart.exists
    /\ tableAtStart.schema = OtherSchema
    /\ tableAtStart.rows # <<>>

\* C5: for every existing input file with the Title and SJR header columns,
\* extraction never aborts and yields one record per (non-blank) data row in
\* file order, with the trimmed title and with sjr 0.0 where the score does
\* not parse.
C5_ExtractionTotal ==
    (pc \notin {"check", "extract"} /\ file.exists /\ HasColumns(file))
        => /\ abortAt # "extract"
           /\ Len(journals) = Len(DataRows(file.rows))
           /\ \A i \in 1..Len(journals) :
                 LET line == DataRows(file.rows)[i]
                     t == RowGet(file.header, line, "Title")[1]
                     x == RowGet(file.header, line, "SJR")[1]
                 IN  /\ journals[i].title = Strip(t)
                     /\ ~ParseFloat(ReplaceComma(Strip(x))).ok
                            => journals[i].sjr = Zero

\* C6: a failed table creation or bulk write ends the run with a non-zero
\* status; nothing follows the failure (no load after a failed creation, no
\* row count and no closing summary after a failed write) and delete, create
\* and load are each attempted at most once in a run.
C6_RemoteFailuresFatal ==
    /\ Count("delete") <= 1
    /\ Count("create") <= 1
    /\ Count("load") <= 1
    /\ \A i \in 1..Len(ops) :
          Fatal(ops[i])
              => /\ i = Len(ops)
                 /\ reported = <<>>
                 /\ ~summary
                 /\ pc \in {"wait", "exited"}
                 /\ pc = "exited" => exitStatus # 0
                 /\ ops[i].op = "create" => (pc = "exited" /\ Count("load") = 0)

C6_Witness ==
    /\ pc = "exited"
    /\ job = "failed"
    /\ exitStatus = 1
    /\ abortAt = "load"

\* C7: two runs in succession on the same unchanged file, neither with a
\* remote failure, leave the destination with the same number of rows.
C7_Idempotent ==
    (pc = "exited" /\ prev # <<>> /\ prev[1].sameFile /\ ~prev[1].failed
                   /\ ~RemoteFailed)
        => Len(table.rows) = prev[1].count

C7_Witness ==
    /\ pc = "exited"
    /\ prev # <<>>
    /\ prev[1].sameFile
    /\ ~prev[1].failed
    /\ prev[1].exitStatus = 0
    /\ prev[1].abortAt = "none"
    /\ ~RemoteFailed
    /\ summary
    /\ Len(table.rows) = 2

\* C8: the table metadata is fetched only after the load job ended in
\* success, and the number printed is the number of rows the destination
\* holds, so it differs from the number of records sent when the service
\* stored fewer.
C8_CountAfterTerminalJob ==
    /\ (pc = "get" \/ Count("get") > 0) => job = "done"
    /\ reported # <<>>
           => /\ job = "done"
              /\ reported[1] = Len(table.rows)
              /\ Len(table.rows) < Len(journals) => reported[1] # Len(journals)

C8_Witness ==
    /\ reported # <<>>
    /\ reported[1] < Len(journals)

\* C9: after a run that aborted at the table creation or at the bulk write,
\* a following run on an existing input file (with the Title and SJR header
\* columns) in which no remote operation fails ends with the destination
\* holding the fixed schema and exactly the records of that file.
C9_Rerunnable ==
    (pc = "exited" /\ prev # <<>> /\ prev[1].abortAt \in {"create", "load"}
                   /\ file.exists /\ HasColumns(file) /\ ~RemoteFailed)
        => Refreshed(file)

\* C10: a run that aborts during extraction makes no remote call and leaves
\* the destination as it found it; a remote call is made, and the
\* destination changed, only in runs whose extraction succeeded over the
\* whole file.
C10_ExtractionBeforeRemote ==
    /\ abortAt = "extract"
           => (ops = <<>> /\ table = tableAtStart /\ exitStatus # 0)
    /\ (ops # <<>> \/ table # tableAtStart)
           => (Extracted(file).ok /\ journals = Extracted(file).journals)

C10_Witness ==
    /\ abortAt = "extract"
    /\ pc = "exited"
    /\ file.exists
    /\ HasColumns(file)
    /\ tableAtStart.rows # <<>>
====
